---- MODULE Spec2Model ----
(***************************************************************************)
(* A model of the generic doubly linked list of source/list.c (adlist).    *)
(*                                                                         *)
(* The heap is modelled explicitly: node blocks, list blocks and iterator  *)
(* blocks are addressed by small integers, NULL is 0, and zmalloc either   *)
(* hands out a block that is not allocated or returns NULL.  Every C       *)
(* function is an operator from a memory record to a memory record plus a  *)
(* return value; every action of the state machine is one call made by the *)
(* (single-threaded) caller.                                               *)
(***************************************************************************)
EXTENDS Integers, Sequences, FiniteSets, TLC

VARIABLES mem, last

vars == <<mem, last>>

(***************************************************************************)
(* Addresses, values and bounds                                            *)
(***************************************************************************)
NULL == 0

_START_HEAD == 0

_START_TAIL == 1

\* the longest list the caller of SpecClone builds before cloning it
MaxLen == 3

\* the number of nodes the caller of Spec keeps allocated at a time
MaxLive == 3

\* number of node blocks the heap can hold: a list of MaxLen and its copy
MaxNodes == 2 * MaxLen

\* number of distinct value pointers the caller owns
NumVals == 2

\* number of copies of one caller value that can exist at a time
MaxDups == 2

Nodes == 1..MaxNodes

NodeOrNull == {NULL} \cup Nodes

\* the caller keeps at most two list handles (an original and a copy)
Lists == {1, 2}

\* iterator blocks; block 0 stands for the memory at address NULL, which is
\* only touched after list_iterator returned NULL and the caller went on
Iters == {1, 2}

IterOrNull == {NULL} \cup Iters

OrigVals == 1..NumVals

\* value NumVals * j + c is the j-th copy object of the caller's value c
DupVals == (NumVals + 1)..(NumVals * (MaxDups + 1))

Values == OrigVals \cup DupVals

\* the keys the caller searches for: its values, and one more object that
\* holds what value 1 holds
Keys == OrigVals \cup {NumVals + 1}

Directions == {_START_HEAD, _START_TAIL}

Min(S) == CHOOSE x \in S : \A y \in S : x <= y

\* the width of a long, scaled down; arithmetic on a long wraps around
LongBits == 4

LONG_MIN == -(2 ^ (LongBits - 1))

LONG_MAX == (2 ^ (LongBits - 1)) - 1

WrapLong(x) == ((x - LONG_MIN) % (2 ^ LongBits)) + LONG_MIN

(***************************************************************************)
(* The allocation facility (zmalloc.h, not part of the repository source): *)
(* zmalloc returns NULL when asked to fail or when no block is left.       *)
(***************************************************************************)
zmalloc_node(m, ok) ==
    IF ok /\ (Nodes \ m.nalloc) # {} THEN Min(Nodes \ m.nalloc) ELSE NULL

zmalloc_list(m, ok) ==
    IF ok /\ (Lists \ m.lalloc) # {} THEN Min(Lists \ m.lalloc) ELSE NULL

zmalloc_iter(m, ok) ==
    IF ok /\ (Iters \ m.ialloc) # {} THEN Min(Iters \ m.ialloc) ELSE NULL

\* zfree of a node block: the block leaves the heap, its contents are dead
zfree_node(m, n) ==
    [m EXCEPT !.nalloc = @ \ {n},
              !.prev[n] = NULL, !.next[n] = NULL, !.value[n] = NULL]

zfree_list(m, l) ==
    [m EXCEPT !.lalloc = @ \ {l},
              !.head[l] = NULL, !.tail[l] = NULL, !.len[l] = 0,
              !.dup[l] = FALSE, !.free[l] = FALSE, !.match[l] = FALSE]

(***************************************************************************)
(* Caller supplied callbacks.  The memory record logs the calls made       *)
(* during the current operation: rlog holds the values release_value was   *)
(* invoked on, dlog the <<argument, result>> pairs of duplicate_value.     *)
(* match_value compares the contents of two values.                        *)
(***************************************************************************)
free_cb(m, v) == [m EXCEPT !.rlog = Append(@, v)]

\* what a value holds: a copy holds what its original holds
Content(v) == ((v - 1) % NumVals) + 1

\* the value pointers some node of some list holds
Held(m) == {m.value[n] : n \in m.nalloc}

\* duplicate_value returns a new object, one no list holds, with the content
\* of v, or NULL
dup_cb(m, v, ok) ==
    LET fresh == {d \in DupVals : Content(d) = Content(v) /\ d \notin Held(m)}
    IN  IF ok /\ fresh # {}
        THEN [m |-> [m EXCEPT !.dlog = Append(@, <<v, Min(fresh)>>)],
              ret |-> Min(fresh)]
        ELSE [m |-> [m EXCEPT !.dlog = Append(@, <<v, NULL>>)], ret |-> NULL]

match_cb(v, key) == Content(v) = Content(key)

(***************************************************************************)
(* list.c                                                                  *)
(***************************************************************************)
\* list_create: `list` is what zmalloc returned
list_create(m, list) ==
    IF list = NULL
    THEN [m |-> m, ret |-> NULL]
    ELSE [m |-> [m EXCEPT !.lalloc = @ \cup {list},
                          !.head[list] = NULL, !.tail[list] = NULL,
                          !.len[list] = 0,
                          !.dup[list] = FALSE, !.free[list] = FALSE,
                          !.match[list] = FALSE],
          ret |-> list]

\* the loop of list_free without the call of the free method
RECURSIVE list_free_loop_skips_release(_, _, _, _)
list_free_loop_skips_release(m, list, current, len) ==
    IF len = 0
    THEN m
    ELSE list_free_loop_skips_release(zfree_node(m, current), list,
                                      m.next[current], len - 1)

RECURSIVE list_free_loop(_, _, _, _)
list_free_loop(m, list, current, len) ==
    IF len = 0
    THEN m
    ELSE LET next == m.next[current]
             m1 == IF m.free[list] THEN free_cb(m, m.value[current]) ELSE m
         IN  list_free_loop(zfree_node(m1, current), list, next, len - 1)

list_free(m, list) ==
    zfree_list(list_free_loop(m, list, m.head[list], m.len[list]), list)

\* list_add_head that does not count the node it links
list_add_head_forgets_count(m, list, value, node) ==
    IF node = NULL
    THEN [m |-> m, ret |-> NULL]
    ELSE LET m1 == [m EXCEPT !.nalloc = @ \cup {node}, !.value[node] = value]
             m2 == IF m1.len[list] = 0
                   THEN [m1 EXCEPT !.head[list] = node, !.tail[list] = node,
                                   !.prev[node] = NULL, !.next[node] = NULL]
                   ELSE [m1 EXCEPT !.prev[node] = NULL,
                                   !.next[node] = m1.head[list],
                                   !.prev[m1.head[list]] = node,
                                   !.head[list] = node]
         IN  [m |-> m2, ret |-> list]

\* list_add_head: `node` is what zmalloc returned
list_add_head(m, list, value, node) ==
    IF node = NULL
    THEN [m |-> m, ret |-> NULL]
    ELSE LET m1 == [m EXCEPT !.nalloc = @ \cup {node}, !.value[node] = value]
             m2 == IF m1.len[list] = 0
                   THEN [m1 EXCEPT !.head[list] = node, !.tail[list] = node,
                                   !.prev[node] = NULL, !.next[node] = NULL]
                   ELSE [m1 EXCEPT !.prev[node] = NULL,
                                   !.next[node] = m1.head[list],
                                   !.prev[m1.head[list]] = node,
                                   !.head[list] = node]
         IN  [m |-> [m2 EXCEPT !.len[list] = @ + 1], ret |-> list]

list_add(m, list, value, node) ==
    IF node = NULL
    THEN [m |-> m, ret |-> NULL]
    ELSE LET m1 == [m EXCEPT !.nalloc = @ \cup {node}, !.value[node] = value]
             m2 == IF m1.len[list] = 0
                   THEN [m1 EXCEPT !.head[list] = node, !.tail[list] = node,
                                   !.prev[node] = NULL, !.next[node] = NULL]
                   ELSE [m1 EXCEPT !.prev[node] = m1.tail[list],
                                   !.next[node] = NULL,
                                   !.next[m1.tail[list]] = node,
                                   !.tail[list] = node]
         IN  [m |-> [m2 EXCEPT !.len[list] = @ + 1], ret |-> list]

\* list_insert that leaves the tail boundary where it was
list_insert_keeps_tail(m, list, old_node, value, after, node) ==
    IF node = NULL
    THEN [m |-> m, ret |-> NULL]
    ELSE LET m1 == [m EXCEPT !.nalloc = @ \cup {node}, !.value[node] = value]
             m2 == IF after
                   THEN [m1 EXCEPT !.prev[node] = old_node,
                                   !.next[node] = m1.next[old_node]]
                   ELSE [m1 EXCEPT !.next[node] = old_node,
                                   !.prev[node] = m1.prev[old_node],
                                   !.head[list] = IF @ = old_node THEN node ELSE @]
             m3 == IF m2.prev[node] # NULL
                   THEN [m2 EXCEPT !.next[m2.prev[node]] = node] ELSE m2
             m4 == IF m3.next[node] # NULL
                   THEN [m3 EXCEPT !.prev[m3.next[node]] = node] ELSE m3
         IN  [m |-> [m4 EXCEPT !.len[list] = @ + 1], ret |-> list]

\* list_insert that counts the node before it looks at what zmalloc returned
list_insert_counts_first(m, list, old_node, value, after, node) ==
    IF node = NULL
    THEN [m |-> [m EXCEPT !.len[list] = @ + 1], ret |-> NULL]
    ELSE LET m1 == [m EXCEPT !.nalloc = @ \cup {node}, !.value[node] = value]
             m2 == IF after
                   THEN [m1 EXCEPT !.prev[node] = old_node,
                                   !.next[node] = m1.next[old_node],
                                   !.tail[list] = IF @ = old_node THEN node ELSE @]
                   ELSE [m1 EXCEPT !.next[node] = old_node,
                                   !.prev[node] = m1.prev[old_node],
                                   !.head[list] = IF @ = old_node THEN node ELSE @]
             m3 == IF m2.prev[node] # NULL
                   THEN [m2 EXCEPT !.next[m2.prev[node]] = node] ELSE m2
             m4 == IF m3.next[node] # NULL
                   THEN [m3 EXCEPT !.prev[m3.next[node]] = node] ELSE m3
         IN  [m |-> [m4 EXCEPT !.len[list] = @ + 1], ret |-> list]

list_insert(m, list, old_node, value, after, node) ==
    IF node = NULL
    THEN [m |-> m, ret |-> NULL]
    ELSE LET m1 == [m EXCEPT !.nalloc = @ \cup {node}, !.value[node] = value]
             m2 == IF after
                   THEN [m1 EXCEPT !.prev[node] = old_node,
                                   !.next[node] = m1.next[old_node],
                                   !.tail[list] = IF @ = old_node THEN node ELSE @]
                   ELSE [m1 EXCEPT !.next[node] = old_node,
                                   !.prev[node] = m1.prev[old_node],
                                   !.head[list] = IF @ = old_node THEN node ELSE @]
             m3 == IF m2.prev[node] # NULL
                   THEN [m2 EXCEPT !.next[m2.prev[node]] = node] ELSE m2
             m4 == IF m3.next[node] # NULL
                   THEN [m3 EXCEPT !.prev[m3.next[node]] = node] ELSE m3
         IN  [m |-> [m4 EXCEPT !.len[list] = @ + 1], ret |-> list]

\* list_remove without the repair of the tail boundary
list_remove_keeps_tail(m, list, node) ==
    LET m1 == IF m.prev[node] # NULL
              THEN [m EXCEPT !.next[m.prev[node]] = m.next[node]]
              ELSE [m EXCEPT !.head[list] = m.next[node]]
        m2 == IF m1.next[node] # NULL
              THEN [m1 EXCEPT !.prev[m1.next[node]] = m1.prev[node]]
              ELSE m1
        m3 == IF m2.free[list] THEN free_cb(m2, m2.value[node]) ELSE m2
        m4 == zfree_node(m3, node)
    IN  [m4 EXCEPT !.len[list] = @ - 1]

list_remove(m, list, node) ==
    LET m1 == IF m.prev[node] # NULL
              THEN [m EXCEPT !.next[m.prev[node]] = m.next[node]]
              ELSE [m EXCEPT !.head[list] = m.next[node]]
        m2 == IF m1.next[node] # NULL
              THEN [m1 EXCEPT !.prev[m1.next[node]] = m1.prev[node]]
              ELSE [m1 EXCEPT !.tail[list] = m1.prev[node]]
        m3 == IF m2.free[list] THEN free_cb(m2, m2.value[node]) ELSE m2
        m4 == zfree_node(m3, node)
    IN  [m4 EXCEPT !.len[list] = @ - 1]

\* list_rotate that also leaves a list of two nodes alone
list_rotate_skips_pairs(m, list) ==
    LET tail == m.tail[list]
    IN  IF m.len[list] <= 2
        THEN m
        ELSE LET m1 == [m EXCEPT !.tail[list] = m.prev[tail]]
                 m2 == [m1 EXCEPT !.next[m1.tail[list]] = NULL]
                 m3 == [m2 EXCEPT !.prev[m2.head[list]] = tail]
                 m4 == [m3 EXCEPT !.prev[tail] = NULL]
                 m5 == [m4 EXCEPT !.next[tail] = m4.head[list]]
             IN  [m5 EXCEPT !.head[list] = tail]

\* list_rotate that does not link the old head back to the moved node
list_rotate_keeps_head_prev(m, list) ==
    LET tail == m.tail[list]
    IN  IF m.len[list] <= 1
        THEN m
        ELSE LET m1 == [m EXCEPT !.tail[list] = m.prev[tail]]
                 m2 == [m1 EXCEPT !.next[m1.tail[list]] = NULL]
                 m4 == [m2 EXCEPT !.prev[tail] = NULL]
                 m5 == [m4 EXCEPT !.next[tail] = m4.head[list]]
             IN  [m5 EXCEPT !.head[list] = tail]

\* list_rotate that leaves the moved node's prev link as it was
list_rotate_keeps_prev(m, list) ==
    LET tail == m.tail[list]
    IN  IF m.len[list] <= 1
        THEN m
        ELSE LET m1 == [m EXCEPT !.tail[list] = m.prev[tail]]
                 m2 == [m1 EXCEPT !.next[m1.tail[list]] = NULL]
                 m3 == [m2 EXCEPT !.prev[m2.head[list]] = tail]
                 m5 == [m3 EXCEPT !.next[tail] = m3.head[list]]
             IN  [m5 EXCEPT !.head[list] = tail]

list_rotate(m, list) ==
    LET tail == m.tail[list]
    IN  IF m.len[list] <= 1
        THEN m
        ELSE LET m1 == [m EXCEPT !.tail[list] = m.prev[tail]]
                 m2 == [m1 EXCEPT !.next[m1.tail[list]] = NULL]
                 m3 == [m2 EXCEPT !.prev[m2.head[list]] = tail]
                 m4 == [m3 EXCEPT !.prev[tail] = NULL]
                 m5 == [m4 EXCEPT !.next[tail] = m4.head[list]]
             IN  [m5 EXCEPT !.head[list] = tail]

\* list_iterator: `iter` is what zmalloc returned
list_iterator(m, list, direction, iter) ==
    IF iter = NULL
    THEN [m |-> m, ret |-> NULL]
    ELSE [m |-> [m EXCEPT !.ialloc = @ \cup {iter},
                          !.inext[iter] = IF direction = _START_HEAD
                                          THEN m.head[list] ELSE m.tail[list],
                          !.idir[iter] = direction],
          ret |-> iter]

\* zfree(NULL) does nothing
list_free_iterator(m, iter) ==
    IF iter = NULL
    THEN m
    ELSE [m EXCEPT !.ialloc = @ \ {iter},
                   !.inext[iter] = NULL, !.idir[iter] = _START_HEAD]

list_rewind(m, list, li) ==
    [m EXCEPT !.inext[li] = m.head[list], !.idir[li] = _START_HEAD]

\* list_rewind_tail that leaves the direction as it was
list_rewind_tail_keeps_direction(m, list, li) ==
    [m EXCEPT !.inext[li] = m.tail[list]]

list_rewind_tail(m, list, li) ==
    [m EXCEPT !.inext[li] = m.tail[list], !.idir[li] = _START_TAIL]

\* list_next that returns the cursor's node without moving the cursor on
list_next_keeps_cursor(m, iter, garbage) ==
    [m |-> m, ret |-> m.inext[iter]]

\* list_next: when the cursor is a released node, reading its link is a read
\* of freed memory, which yields `garbage`
list_next(m, iter, garbage) ==
    LET current == m.inext[iter]
    IN  IF current # NULL
        THEN [m |-> [m EXCEPT !.inext[iter] =
                          IF current \notin m.nalloc THEN garbage
                          ELSE IF m.idir[iter] = _START_HEAD
                               THEN m.next[current] ELSE m.prev[current]],
              ret |-> current]
        ELSE [m |-> m, ret |-> current]

\* a failure exit that releases the iterator and forgets the partial copy
clone_abort_leaks_copy(m, copy, iter) == list_free_iterator(m, iter)

\* the two failure exits of list_clone's loop
clone_abort(m, copy, iter) == list_free_iterator(list_free(m, copy), iter)

\* the body of list_clone from the while loop on; i counts the elements
RECURSIVE clone_loop(_, _, _, _, _, _, _)
clone_loop(m, copy, iter, i, failKind, failAt, fuel) ==
    LET nx == list_next(m, iter, NULL)
        node == nx.ret
    IN  IF node = NULL \/ fuel = 0
        THEN [m |-> list_free_iterator(nx.m, iter), ret |-> copy,
              fail |-> "none", k |-> 0]
        ELSE LET d == IF nx.m.dup[copy]
                      THEN dup_cb(nx.m, nx.m.value[node],
                                  ~(failKind = "dup" /\ failAt = i))
                      ELSE [m |-> nx.m, ret |-> nx.m.value[node]]
             IN  IF d.ret = NULL
                 THEN [m |-> clone_abort(d.m, copy, iter),
                       ret |-> NULL, fail |-> "dup", k |-> i]
                 ELSE LET a == list_add(d.m, copy, d.ret,
                                        zmalloc_node(d.m, ~(failKind = "node"
                                                            /\ failAt = i)))
                      IN  IF a.ret = NULL
                          THEN [m |-> clone_abort(a.m, copy, iter),
                                ret |-> NULL, fail |-> "node", k |-> i]
                          ELSE clone_loop(a.m, copy, iter, i + 1,
                                          failKind, failAt, fuel - 1)

\* a setup that does not hand the duplicate callback on to the copy
clone_setup_drops_dup(m, orig, copy) ==
    LET c == list_create(m, copy)
    IN  [c.m EXCEPT !.free[copy] = m.free[orig], !.match[copy] = m.match[orig]]

\* a setup that copies the whole list header, boundaries and count included
clone_setup_copies_header(m, orig, copy) ==
    LET c == list_create(m, copy)
    IN  [c.m EXCEPT !.dup[copy] = m.dup[orig], !.free[copy] = m.free[orig],
                    !.match[copy] = m.match[orig],
                    !.head[copy] = m.head[orig], !.tail[copy] = m.tail[orig],
                    !.len[copy] = m.len[orig]]

\* list_clone up to the call of list_iterator; `copy` is not NULL
clone_setup(m, orig, copy) ==
    LET c == list_create(m, copy)
    IN  [c.m EXCEPT !.dup[copy] = m.dup[orig], !.free[copy] = m.free[orig],
                    !.match[copy] = m.match[orig]]

\* list_clone: `copy` and `iter` are what zmalloc returned for the list and
\* for the iterator; duplicate_value (failKind "dup") or the node allocation
\* (failKind "node") fails on element failAt.  list_iterator's result is
\* used unchecked: with iter = NULL the loop runs on the memory at address 0.
list_clone(m, orig, copy, iter, failKind, failAt) ==
    IF copy = NULL
    THEN [m |-> m, ret |-> NULL, fail |-> "list", k |-> 0]
    ELSE LET it == list_iterator(clone_setup(m, orig, copy), orig, _START_HEAD, iter)
         IN  clone_loop(it.m, copy, it.ret, 1, failKind, failAt, MaxNodes + 1)

\* the loop of list_search returning a match without releasing the iterator
RECURSIVE search_loop_keeps_iterator(_, _, _, _, _)
search_loop_keeps_iterator(m, list, key, iter, fuel) ==
    LET nx == list_next(m, iter, NULL)
        node == nx.ret
    IN  IF node = NULL \/ fuel = 0
        THEN [m |-> list_free_iterator(nx.m, iter), ret |-> NULL]
        ELSE IF nx.m.match[list]
             THEN IF match_cb(nx.m.value[node], key)
                  THEN [m |-> nx.m, ret |-> node]
                  ELSE search_loop_keeps_iterator(nx.m, list, key, iter, fuel - 1)
             ELSE IF key = nx.m.value[node]
                  THEN [m |-> nx.m, ret |-> node]
                  ELSE search_loop_keeps_iterator(nx.m, list, key, iter, fuel - 1)

RECURSIVE search_loop(_, _, _, _, _)
search_loop(m, list, key, iter, fuel) ==
    LET nx == list_next(m, iter, NULL)
        node == nx.ret
    IN  IF node = NULL \/ fuel = 0
        THEN [m |-> list_free_iterator(nx.m, iter), ret |-> NULL]
        ELSE IF nx.m.match[list]
             THEN IF match_cb(nx.m.value[node], key)
                  THEN [m |-> list_free_iterator(nx.m, iter), ret |-> node]
                  ELSE search_loop(nx.m, list, key, iter, fuel - 1)
             ELSE IF key = nx.m.value[node]
                  THEN [m |-> list_free_iterator(nx.m, iter), ret |-> node]
                  ELSE search_loop(nx.m, list, key, iter, fuel - 1)

\* list_search that walks the list from its tail
list_search_from_tail(m, list, key, iter) ==
    LET it == list_iterator(m, list, _START_TAIL, iter)
    IN  search_loop(it.m, list, key, it.ret, MaxNodes + 1)

\* list_search: `iter` is what zmalloc returned inside list_iterator, whose
\* result is used unchecked
list_search(m, list, key, iter) ==
    LET it == list_iterator(m, list, _START_HEAD, iter)
    IN  search_loop(it.m, list, key, it.ret, MaxNodes + 1)

RECURSIVE index_loop(_, _, _, _)
index_loop(m, n, index, dir) ==
    IF index = 0 \/ n = NULL
    THEN n
    ELSE index_loop(m, IF dir = _START_HEAD THEN m.next[n] ELSE m.prev[n],
                    index - 1, dir)

\* list_index that takes -1 for the node before the last
list_index_skips_last(m, list, index) ==
    IF index < 0
    THEN index_loop(m, m.tail[list], WrapLong(-index), _START_TAIL)
    ELSE index_loop(m, m.head[list], index, _START_HEAD)

list_index(m, list, index) ==
    IF index < 0
    THEN index_loop(m, m.tail[list], WrapLong(WrapLong(-index) - 1), _START_TAIL)
    ELSE index_loop(m, m.head[list], index, _START_HEAD)

(***************************************************************************)
(* Reading a list: the chain from head by next, and from tail by prev.     *)
(* The walks are bounded by the heap size so that they are defined on any  *)
(* memory, well formed or not.                                             *)
(***************************************************************************)
RECURSIVE Walk(_, _, _, _)
Walk(m, n, dir, fuel) ==
    IF n = NULL \/ fuel = 0
    THEN <<>>
    ELSE <<n>> \o Walk(m, IF dir = _START_HEAD THEN m.next[n] ELSE m.prev[n],
                       dir, fuel - 1)

Forward(m, l) == Walk(m, m.head[l], _START_HEAD, MaxNodes + 1)

Backward(m, l) == Walk(m, m.tail[l], _START_TAIL, MaxNodes + 1)

Reverse(s) == [i \in 1..Len(s) |-> s[Len(s) + 1 - i]]

Range(s) == {s[i] : i \in 1..Len(s)}

NodesOf(m, l) == Range(Forward(m, l))

ValuesOf(m, l) == [i \in 1..Len(Forward(m, l)) |-> m.value[Forward(m, l)[i]]]

(***************************************************************************)
(* The state machine                                                       *)
(***************************************************************************)
\* what the caller knows of its last call; a caller that runs a sequence of
\* calls as one scenario also keeps the memory it started from (start), the
\* arguments it passed (args) and what the calls have returned so far (seen)
NoOp == [op |-> "init", list |-> NULL, ret |-> NULL, ub |-> "none",
         fail |-> "none", k |-> 0, start |-> <<>>, args |-> <<>>, seen |-> <<>>]

InitMem ==
    [nalloc |-> {},
     prev   |-> [n \in Nodes |-> NULL],
     next   |-> [n \in Nodes |-> NULL],
     value  |-> [n \in Nodes |-> NULL],
     lalloc |-> {},
     head   |-> [l \in Lists |-> NULL],
     tail   |-> [l \in Lists |-> NULL],
     len    |-> [l \in Lists |-> 0],
     dup    |-> [l \in Lists |-> FALSE],
     free   |-> [l \in Lists |-> FALSE],
     match  |-> [l \in Lists |-> FALSE],
     ialloc |-> {},
     inext  |-> [i \in IterOrNull |-> NULL],
     idir   |-> [i \in IterOrNull |-> _START_HEAD],
     rlog   |-> <<>>,
     dlog   |-> <<>>]

Init == mem = InitMem /\ last = NoOp

\* the process is running: no earlier call ended in a segmentation fault
Running == last.ub # "segv"

\* the memory at the start of a call: the callback logs are empty
Begin == [mem EXCEPT !.rlog = <<>>, !.dlog = <<>>]

Create ==
    /\ Running
    /\ mem.lalloc = {}
    /\ \E ok \in BOOLEAN :
         LET list == zmalloc_list(Begin, ok)
             r == list_create(Begin, list)
         IN  /\ mem' = r.m
             /\ last' = [NoOp EXCEPT !.op = "create", !.ret = r.ret, !.list = r.ret,
                                     !.fail = IF list = NULL THEN "list" ELSE "none"]

Free ==
    /\ Running
    /\ \E l \in mem.lalloc :
         /\ mem' = list_free(Begin, l)
         /\ last' = [NoOp EXCEPT !.op = "free", !.list = l]

\* list_set_clone_method, list_set_free_method, list_set_match_method: the
\* callbacks are installed before the list is used
list_set_clone_method(m, l, fn) == [m EXCEPT !.dup[l] = fn]

list_set_free_method(m, l, fn) == [m EXCEPT !.free[l] = fn]

list_set_match_method(m, l, fn) == [m EXCEPT !.match[l] = fn]

\* list l was just created and has not been used yet
Fresh(l) == last.list = l /\ last.op \in {"create", "set_dup", "set_free", "set_match"}

SetDup ==
    /\ Running
    /\ \E l \in mem.lalloc :
         /\ Fresh(l)
         /\ mem' = list_set_clone_method(Begin, l, ~mem.dup[l])
         /\ last' = [NoOp EXCEPT !.op = "set_dup", !.list = l]

SetFree ==
    /\ Running
    /\ \E l \in mem.lalloc :
         /\ Fresh(l)
         /\ mem' = list_set_free_method(Begin, l, ~mem.free[l])
         /\ last' = [NoOp EXCEPT !.op = "set_free", !.list = l]

SetMatch ==
    /\ Running
    /\ \E l \in mem.lalloc :
         /\ Fresh(l)
         /\ mem' = list_set_match_method(Begin, l, ~mem.match[l])
         /\ last' = [NoOp EXCEPT !.op = "set_match", !.list = l]

AddHead ==
    /\ Running
    /\ Cardinality(mem.nalloc) < MaxLive
    /\ \E l \in mem.lalloc, v \in OrigVals, ok \in BOOLEAN :
         LET node == zmalloc_node(Begin, ok)
             r == list_add_head(Begin, l, v, node)
         IN  /\ mem' = r.m
             /\ last' = [NoOp EXCEPT !.op = "add_head", !.list = l, !.ret = r.ret,
                                     !.fail = IF node = NULL THEN "node" ELSE "none"]

AddTail ==
    /\ Running
    /\ Cardinality(mem.nalloc) < MaxLive
    /\ \E l \in mem.lalloc, v \in OrigVals, ok \in BOOLEAN :
         LET node == zmalloc_node(Begin, ok)
             r == list_add(Begin, l, v, node)
         IN  /\ mem' = r.m
             /\ last' = [NoOp EXCEPT !.op = "add", !.list = l, !.ret = r.ret,
                                     !.fail = IF node = NULL THEN "node" ELSE "none"]

Insert ==
    /\ Running
    /\ Cardinality(mem.nalloc) < MaxLive
    /\ \E l \in mem.lalloc, v \in OrigVals, ok \in BOOLEAN, after \in BOOLEAN :
         \E old \in NodesOf(mem, l) :
           LET node == zmalloc_node(Begin, ok)
               r == list_insert(Begin, l, old, v, after, node)
           IN  /\ mem' = r.m
               /\ last' = [NoOp EXCEPT !.op = "insert", !.list = l, !.ret = r.ret,
                                       !.fail = IF node = NULL THEN "node" ELSE "none"]

Remove ==
    /\ Running
    /\ \E l \in mem.lalloc :
         \E n \in NodesOf(mem, l) :
           /\ mem' = list_remove(Begin, l, n)
           /\ last' = [NoOp EXCEPT !.op = "remove", !.list = l]

Rotate ==
    /\ Running
    /\ \E l \in mem.lalloc :
         /\ mem' = list_rotate(Begin, l)
         /\ last' = [NoOp EXCEPT !.op = "rotate", !.list = l]

(***************************************************************************)
(* A call that dereferences the NULL iterator.  What happens is undefined: *)
(* the process is killed (segv), or the memory at address 0 is readable    *)
(* and writable and serves as the iterator, holding any cursor and any     *)
(* direction (read).                                                       *)
(***************************************************************************)
AtNull(m, c, d) == [m EXCEPT !.inext[NULL] = c, !.idir[NULL] = d]

Settled(m) == [m EXCEPT !.inext[NULL] = NULL, !.idir[NULL] = _START_HEAD]

Search ==
    /\ Running
    /\ \E l \in mem.lalloc, key \in Keys, ok \in BOOLEAN :
         LET it == zmalloc_iter(Begin, ok)
         IN  IF it # NULL
             THEN LET r == list_search(Begin, l, key, it)
                  IN  /\ mem' = r.m
                      /\ last' = [NoOp EXCEPT !.op = "search", !.list = l,
                                              !.ret = r.ret, !.k = key]
             ELSE \/ /\ mem' = Begin
                     /\ last' = [NoOp EXCEPT !.op = "search", !.list = l,
                                             !.ub = "segv", !.fail = "iter", !.k = key]
                  \/ \E c \in {NULL} \cup mem.nalloc, d \in Directions :
                       LET r == list_search(AtNull(Begin, c, d), l, key, it)
                       IN  /\ mem' = Settled(r.m)
                           /\ last' = [NoOp EXCEPT !.op = "search", !.list = l,
                                                   !.ret = r.ret, !.ub = "read",
                                                   !.fail = "iter", !.k = key]

\* the caller keeps one iterator at a time
MakeIterator ==
    /\ Running
    /\ mem.ialloc = {}
    /\ \E l \in mem.lalloc, dir \in Directions, ok \in BOOLEAN :
         LET it == zmalloc_iter(Begin, ok)
             r == list_iterator(Begin, l, dir, it)
         IN  /\ mem' = r.m
             /\ last' = [NoOp EXCEPT !.op = "iterator", !.list = l, !.ret = r.ret,
                                     !.k = dir,
                                     !.fail = IF it = NULL THEN "iter" ELSE "none"]

FreeIterator ==
    /\ Running
    /\ \E it \in mem.ialloc :
         /\ mem' = list_free_iterator(Begin, it)
         /\ last' = [NoOp EXCEPT !.op = "free_iterator"]

Rewind ==
    /\ Running
    /\ \E l \in mem.lalloc, it \in mem.ialloc :
         /\ mem' = list_rewind(Begin, l, it)
         /\ last' = [NoOp EXCEPT !.op = "rewind", !.list = l]

RewindTail ==
    /\ Running
    /\ \E l \in mem.lalloc, it \in mem.ialloc :
         /\ mem' = list_rewind_tail(Begin, l, it)
         /\ last' = [NoOp EXCEPT !.op = "rewind_tail", !.list = l]

\* list_next on a cursor that refers to a released node reads freed memory:
\* the process is killed, or the read yields any node address or NULL
IterNext ==
    /\ Running
    /\ \E it \in mem.ialloc :
         IF mem.inext[it] = NULL \/ mem.inext[it] \in mem.nalloc
         THEN LET r == list_next(Begin, it, NULL)
              IN  /\ mem' = r.m
                  /\ last' = [NoOp EXCEPT !.op = "next", !.ret = r.ret]
         ELSE \/ /\ mem' = Begin
                 /\ last' = [NoOp EXCEPT !.op = "next", !.ub = "segv"]
              \/ \E garbage \in NodeOrNull :
                   LET r == list_next(Begin, it, garbage)
                   IN  /\ mem' = r.m
                       /\ last' = [NoOp EXCEPT !.op = "next", !.ret = r.ret,
                                               !.ub = "read"]

\* the caller asks for positions in and around the list, and for the two
\* extreme values of a long
Index ==
    /\ Running
    /\ \E l \in mem.lalloc,
          index \in ((-(MaxLive + 2))..(MaxLive + 1)) \cup {LONG_MIN, LONG_MAX} :
         /\ mem' = Begin
         /\ last' = [NoOp EXCEPT !.op = "index", !.list = l, !.k = index,
                                 !.ret = list_index(Begin, l, index)]

CloneOf(l) ==
    \E okl \in BOOLEAN, oki \in BOOLEAN,
       fk \in {"none", "dup", "node"}, fa \in 1..MaxNodes :
      /\ fa <= IF fk = "none" THEN 1 ELSE mem.len[l]
      /\ LET copy == zmalloc_list(Begin, okl)
             it == zmalloc_iter(Begin, oki)
         IN  IF copy = NULL \/ it # NULL
             THEN LET r == list_clone(Begin, l, copy, it, fk, fa)
                  IN  /\ mem' = r.m
                      /\ last' = [NoOp EXCEPT !.op = "clone", !.list = l,
                                              !.ret = r.ret, !.fail = r.fail,
                                              !.k = r.k]
             ELSE \/ /\ fk = "none"
                     /\ mem' = clone_setup(Begin, l, copy)
                     /\ last' = [NoOp EXCEPT !.op = "clone", !.list = l,
                                             !.ub = "segv", !.fail = "iter"]
                  \/ \E c \in {NULL} \cup mem.nalloc, d \in Directions :
                       LET r == list_clone(AtNull(Begin, c, d), l, copy, it, fk, fa)
                       IN  /\ fk = "none"
                           /\ mem' = Settled(r.m)
                           /\ last' = [NoOp EXCEPT !.op = "clone", !.list = l,
                                                   !.ret = r.ret, !.ub = "read",
                                                   !.fail = "iter", !.k = r.k]

\* the caller of SpecClone clones whatever list it has
Clone == Running /\ \E l \in mem.lalloc : CloneOf(l)

\* the caller of Spec clones a list when the copy fits its budget of nodes
CloneLive ==
    /\ Running
    /\ \E l \in mem.lalloc :
         Cardinality(mem.nalloc) + mem.len[l] <= MaxLive /\ CloneOf(l)

Next ==
    \/ Create
    \/ Free
    \/ SetDup
    \/ SetFree
    \/ AddHead
    \/ AddTail
    \/ Insert
    \/ Remove
    \/ Rotate
    \/ CloneLive

Spec == Init /\ [][Next]_vars

(***************************************************************************)
(* SpecList: the caller works on one list with the structural operations.  *)
(***************************************************************************)
NextList ==
    \/ Create
    \/ Free
    \/ SetFree
    \/ AddHead
    \/ AddTail
    \/ Insert
    \/ Remove
    \/ Rotate

SpecList == Init /\ [][NextList]_vars

(***************************************************************************)
(* SpecPair: the caller builds a list, clones it, and goes on changing     *)
(* both the list and its clone; no callback is installed.                  *)
(***************************************************************************)
NextPair ==
    \/ Create
    \/ AddHead
    \/ AddTail
    \/ Insert
    \/ Remove
    \/ Rotate
    \/ CloneLive

SpecPair == Init /\ [][NextPair]_vars

(***************************************************************************)
(* SpecClone: the caller creates a list, installs callbacks, appends up to *)
(* MaxLen values with list_add, and then clones (and frees) lists.         *)
(***************************************************************************)
RECURSIVE Built(_, _)
Built(m, vals) ==
    IF vals = <<>>
    THEN m
    ELSE Built(list_add(m, 1, Head(vals), zmalloc_node(m, TRUE)).m, Tail(vals))

Sources == UNION {[1..n -> OrigVals] : n \in 0..MaxLen}

InitClone ==
    /\ \E vals \in Sources, d \in BOOLEAN, f \in BOOLEAN :
         mem = Built(list_set_free_method(
                       list_set_clone_method(list_create(InitMem, 1).m, 1, d),
                       1, f), vals)
    /\ last = NoOp

NextClone ==
    \/ Clone
    \/ Free

SpecClone == InitClone /\ [][NextClone]_vars

(***************************************************************************)
(* SpecIter: the caller works on one list, holds one iterator over it, and *)
(* searches and indexes the list.                                          *)
(***************************************************************************)
NextIter ==
    \/ Create
    \/ Free
    \/ SetFree
    \/ SetMatch
    \/ AddHead
    \/ AddTail
    \/ Insert
    \/ Remove
    \/ Rotate
    \/ MakeIterator
    \/ FreeIterator
    \/ Rewind
    \/ RewindTail
    \/ IterNext
    \/ Index
    \/ Search

SpecIter == Init /\ [][NextIter]_vars

(***************************************************************************)
(* SpecIndex: the caller works on one list and looks nodes up by position. *)
(***************************************************************************)
NextIndex ==
    \/ Create
    \/ AddHead
    \/ AddTail
    \/ Insert
    \/ Remove
    \/ Rotate
    \/ Index

SpecIndex == Init /\ [][NextIndex]_vars

(***************************************************************************)
(* SpecSearch: the caller has a list built with list_add, with or without  *)
(* match_value, rotates it and looks nodes up by key.                      *)
(***************************************************************************)
InitSearch ==
    /\ \E vals \in Sources, f \in BOOLEAN :
         mem = Built(list_set_match_method(list_create(InitMem, 1).m, 1, f), vals)
    /\ last = NoOp

NextSearch ==
    \/ Rotate
    \/ Search

SpecSearch == InitSearch /\ [][NextSearch]_vars

(***************************************************************************)
(* SpecDrain: the caller has a list and a new iterator over it, and runs   *)
(* the loop  while ((node = list_next(iter)) != NULL) list_remove(list,    *)
(* node);  last.start is the memory when the loop starts, last.seen the    *)
(* nodes yielded so far.                                                   *)
(***************************************************************************)
InOrder(m, l, dir) == IF dir = _START_HEAD THEN Forward(m, l) ELSE Backward(m, l)

InitDrain ==
    \E vals \in Sources, f \in BOOLEAN, dir \in Directions :
      LET built == Built(list_set_free_method(list_create(InitMem, 1).m, 1, f), vals)
          it == list_iterator(built, 1, dir, zmalloc_iter(built, TRUE))
      IN  /\ mem = it.m
          /\ last = [NoOp EXCEPT !.op = "iterator", !.list = 1, !.ret = it.ret,
                                 !.k = dir, !.start = it.m]

\* list_next by a caller that keeps what the traversal has yielded (kept is
\* what it knew before the call); a cursor that refers to a released node is
\* read as in IterNext
Traversed(it, kept) ==
    IF mem.inext[it] = NULL \/ mem.inext[it] \in mem.nalloc
    THEN LET r == list_next(Begin, it, NULL)
         IN  /\ mem' = r.m
             /\ last' = [kept EXCEPT !.op = "next", !.ret = r.ret, !.ub = "none",
                                     !.seen = IF r.ret = NULL THEN @
                                              ELSE Append(@, r.ret)]
    ELSE \/ /\ mem' = Begin
            /\ last' = [kept EXCEPT !.op = "next", !.ret = NULL, !.ub = "segv"]
         \/ \E garbage \in NodeOrNull :
              LET r == list_next(Begin, it, garbage)
              IN  /\ mem' = r.m
                  /\ last' = [kept EXCEPT !.op = "next", !.ret = r.ret,
                                          !.ub = "read",
                                          !.seen = Append(@, r.ret)]

\* list_next in the loop condition
Yield ==
    /\ Running
    /\ last.op \in {"iterator", "remove"}
    /\ \E it \in mem.ialloc : Traversed(it, last)

\* list_remove of the node the call before returned (list_next in the loop
\* body, list_index in remove(list, index(list, 0)))
RemoveReturned ==
    /\ Running
    /\ last.op \in {"next", "index"} /\ last.ret # NULL /\ last.ub = "none"
    /\ mem' = list_remove(Begin, last.list, last.ret)
    /\ last' = [last EXCEPT !.op = "remove", !.ret = NULL]

NextDrain ==
    \/ Yield
    \/ RemoveReturned

SpecDrain == InitDrain /\ [][NextDrain]_vars

(***************************************************************************)
(* SpecWalk: the caller has a list and a new iterator over it, calls       *)
(* list_next at any time, rewinds the iterator, and appends to the list    *)
(* and removes from it in between.  A call that changes or rewinds the     *)
(* list forgets last.start and last.seen; the first list_next after a      *)
(* rewind (or after list_iterator) keeps the memory it started from.       *)
(***************************************************************************)
InitWalk ==
    \E n \in 0..MaxLen, dir \in Directions :
      LET built == Built(list_create(InitMem, 1).m, [i \in 1..n |-> 1])
          it == list_iterator(built, 1, dir, zmalloc_iter(built, TRUE))
      IN  /\ mem = it.m
          /\ last = [NoOp EXCEPT !.op = "iterator", !.list = 1, !.ret = it.ret,
                                 !.k = dir, !.start = it.m]

Advance ==
    /\ Running
    /\ \E it \in mem.ialloc :
         Traversed(it, IF last.op \in {"rewind", "rewind_tail"}
                       THEN [last EXCEPT !.start = Begin]
                       ELSE IF last.start # <<>>
                            THEN last ELSE [last EXCEPT !.seen = <<>>])

NextWalk ==
    \/ Advance
    \/ Rewind
    \/ RewindTail
    \/ AddTail
    \/ Remove

SpecWalk == InitWalk /\ [][NextWalk]_vars

(***************************************************************************)
(* SpecRead: the caller has a list built with list_add, with or without    *)
(* duplicate_value, and only reads it: it iterates, rewinds, indexes and   *)
(* searches, and it ends by cloning the list.                              *)
(***************************************************************************)
InitRead ==
    /\ \E n \in 0..MaxLen, d \in BOOLEAN :
         mem = Built(list_set_clone_method(list_create(InitMem, 1).m, 1, d),
                     [i \in 1..n |-> ((i - 1) % NumVals) + 1])
    /\ last = NoOp

\* the caller has not got a clone yet
Reading == mem.lalloc # Lists

NextRead ==
    \/ Reading /\ MakeIterator
    \/ Reading /\ FreeIterator
    \/ Reading /\ Rewind
    \/ Reading /\ RewindTail
    \/ Reading /\ IterNext
    \/ Reading /\ Index
    \/ Reading /\ Search
    \/ Reading /\ Clone

SpecRead == InitRead /\ [][NextRead]_vars

(***************************************************************************)
(* SpecRound: the caller has a list and runs one of three sequences of     *)
(* calls on it: list_rotate as many times as the list has nodes;           *)
(* list_add_head followed by list_remove(list, list_index(list, 0)); or    *)
(* one list_insert at a node of the list.  last.start is the memory before *)
(* the first call, last.k the number of rotations made.                    *)
(***************************************************************************)
InitRound ==
    \E vals \in Sources, f \in BOOLEAN :
      LET built == Built(list_set_free_method(list_create(InitMem, 1).m, 1, f), vals)
      IN  /\ mem = built
          /\ last = [NoOp EXCEPT !.list = 1, !.start = built]

RotateAgain ==
    /\ Running
    /\ last.op \in {"init", "rotate"}
    /\ last.k < mem.len[last.list]
    /\ mem' = list_rotate(Begin, last.list)
    /\ last' = [last EXCEPT !.op = "rotate", !.k = @ + 1]

PushFront ==
    /\ Running
    /\ last.op = "init"
    /\ \E v \in OrigVals, ok \in BOOLEAN :
         LET node == zmalloc_node(Begin, ok)
             r == list_add_head(Begin, last.list, v, node)
         IN  /\ mem' = r.m
             /\ last' = [last EXCEPT !.op = "add_head", !.ret = r.ret,
                                     !.fail = IF node = NULL THEN "node" ELSE "none"]

IndexFront ==
    /\ Running
    /\ last.op = "add_head" /\ last.ret # NULL
    /\ mem' = Begin
    /\ last' = [last EXCEPT !.op = "index", !.ret = list_index(Begin, last.list, 0)]

InsertAt ==
    /\ Running
    /\ last.op = "init"
    /\ \E v \in OrigVals, ok \in BOOLEAN, after \in BOOLEAN :
         \E old \in NodesOf(mem, last.list) :
           LET node == zmalloc_node(Begin, ok)
               r == list_insert(Begin, last.list, old, v, after, node)
           IN  /\ mem' = r.m
               /\ last' = [last EXCEPT !.op = "insert", !.ret = r.ret,
                                       !.args = <<old, v, after>>,
                                       !.fail = IF node = NULL THEN "node" ELSE "none"]

NextRound ==
    \/ RotateAgain
    \/ PushFront
    \/ IndexFront
    \/ RemoveReturned
    \/ InsertAt

SpecRound == InitRound /\ [][NextRound]_vars

(***************************************************************************)
(* Properties                                                              *)
(***************************************************************************)
\* memory m2 is memory m1 but for the logs of callback invocations
Same(m1, m2) == [m2 EXCEPT !.rlog = m1.rlog, !.dlog = m1.dlog] = m1

\* C1: in every state reached by add_front, add_back, insert, remove and
\* rotate calls, count is the number of nodes reached from front by next,
\* that walk ends at back, and it is the reverse of the walk from back by prev.
C1_CountAndTraversals ==
    \A l \in mem.lalloc :
      LET f == Forward(mem, l)
      IN  /\ Len(f) = mem.len[l]
          /\ f # <<>> => f[Len(f)] = mem.tail[l]
          /\ f = Reverse(Backward(mem, l))

\* a list of three nodes that was just rotated
C1_Witness ==
    /\ last.op = "rotate"
    /\ last.list \in mem.lalloc
    /\ mem.len[last.list] = 3
    /\ Len(Forward(mem, last.list)) = 3

\* C2: count is 0 exactly when front and back are both empty, front and back
\* are never empty one without the other, and in a non-empty list front.prev
\* and back.next are empty.
C2_EmptyIffNoBoundaries ==
    \A l \in mem.lalloc :
      /\ mem.len[l] = 0 <=> (mem.head[l] = NULL /\ mem.tail[l] = NULL)
      /\ mem.head[l] = NULL <=> mem.tail[l] = NULL
      /\ mem.len[l] # 0 => /\ mem.prev[mem.head[l]] = NULL
                           /\ mem.next[mem.tail[l]] = NULL

\* the only node of a list was just removed
C2_Witness ==
    /\ last.op = "remove"
    /\ last.list \in mem.lalloc
    /\ mem.len[last.list] = 0
    /\ mem.rlog # <<>>

\* C3: when the node allocation fails inside add_front, add_back or insert,
\* the call returns Fail, invokes no callback, and leaves the whole memory
\* (every list's front, back, count and callbacks, every node's prev, next
\* and value) as it was.
C3_FailedAddChangesNothing ==
    [][(last'.op \in {"add_head", "add", "insert"} /\ last'.fail = "node")
         => /\ last'.ret = NULL
            /\ Same(mem, mem')
            /\ mem'.rlog = <<>> /\ mem'.dlog = <<>>]_vars

\* an insert into a list of two nodes whose allocation failed
C3_Witness ==
    /\ last.op = "insert"
    /\ last.fail = "node"
    /\ last.ret = NULL
    /\ mem.len[last.list] = 2

\* the multiset of the elements of a sequence, as a function to counts
Count(s, x) == Cardinality({i \in 1..Len(s) : s[i] = x})

SameBag(s, t) == \A x \in Range(s) \cup Range(t) : Count(s, x) = Count(t, x)

\* the values duplicate_value returned during the last call
Duplicates(m) == [i \in 1..Len(m.dlog) |-> m.dlog[i][2]]

\* the duplicates duplicate_value produced (its failures left out)
RECURSIVE Produced(_)
Produced(s) ==
    IF s = <<>> THEN <<>>
    ELSE IF Head(s) = NULL THEN Produced(Tail(s))
         ELSE <<Head(s)>> \o Produced(Tail(s))

\* C4: whenever an allocation fails inside an operation, the operation
\* reports failure to its caller without reading or writing through the
\* failed allocation result, and the memory stays as it was.
C4_NoPanicOnAllocationFailure ==
    [][last'.fail \in {"list", "iter", "node"}
         => /\ last'.ub = "none"
            /\ last'.ret = NULL
            /\ Same(mem, mem')]_vars

\* C5: make_iterator never returns a failure: it returns an iterator whose
\* cursor is the list's front (forward) or back (backward).
C5_MakeIteratorCannotFail ==
    last.op = "iterator"
      => /\ last.ret # NULL
         /\ mem.inext[last.ret] = IF last.k = _START_HEAD
                                  THEN mem.head[last.list] ELSE mem.tail[last.list]
         /\ mem.idir[last.ret] = last.k

C7_NodeFailureReleasesEveryDuplicate ==
    (last.op = "clone" /\ last.fail = "node" /\ last.ub = "none"
       /\ mem.dup[last.list] /\ mem.free[last.list])
      => /\ last.ret = NULL
         /\ Len(mem.dlog) = last.k
         /\ SameBag(mem.rlog, Produced(Duplicates(mem)))

\* C8: on every clone failure the source keeps its structure and count, and
\* release_value is not invoked on any value the source still holds.
C8_FailedCloneLeavesSourceValues ==
    [][(last'.op = "clone" /\ last'.ret = NULL /\ last'.ub = "none")
         => /\ Same(mem, mem')
            /\ Range(mem'.rlog) \cap Range(ValuesOf(mem', last'.list)) = {}]_vars

\* C9: a successful clone has the callbacks and the count of its source; its
\* i-th value is the i-th source value itself when no duplicate_value is
\* installed, and otherwise the result of duplicate_value on the i-th source
\* value, duplicate_value being invoked once per source node, in order.
C9_CloneCopiesInOrder ==
    (last.op = "clone" /\ last.ret # NULL /\ last.ub = "none")
      => LET o == last.list
             c == last.ret
             src == ValuesOf(mem, o)
             dst == ValuesOf(mem, c)
         IN  /\ c # o /\ c \in mem.lalloc
             /\ mem.dup[c] = mem.dup[o]
             /\ mem.free[c] = mem.free[o]
             /\ mem.match[c] = mem.match[o]
             /\ mem.len[c] = mem.len[o]
             /\ Len(dst) = Len(src)
             /\ Len(src) = mem.len[o]
             /\ IF mem.dup[o]
                THEN /\ Len(mem.dlog) = Len(src)
                     /\ \A i \in 1..Len(src) : mem.dlog[i] = <<src[i], dst[i]>>
                     /\ \A i \in 1..Len(src) : dst[i] \notin Range(src)
                ELSE /\ dst = src
                     /\ mem.dlog = <<>>

\* a successful deep clone of a list of three nodes holding different values
C9_Witness ==
    /\ last.op = "clone" /\ last.ret # NULL /\ last.ub = "none"
    /\ mem.dup[last.list]
    /\ mem.len[last.list] = 3
    /\ Cardinality(Range(ValuesOf(mem, last.list))) = 2
    /\ Len(ValuesOf(mem, last.ret)) = 3

\* the calls that change the structure of the list they are applied to
Mutators == {"add_head", "add", "insert", "remove", "rotate"}

\* C10: no node belongs to two lists, and add_front, add_back, insert,
\* remove and rotate applied to one list leave the front, the back, the
\* count and every node (links and value) of the other list as they were.
C10_CloneSharesNoNode ==
    [][/\ \A l1 \in mem'.lalloc, l2 \in mem'.lalloc :
            l1 # l2 => NodesOf(mem', l1) \cap NodesOf(mem', l2) = {}
       /\ \A o \in mem.lalloc :
            (last'.op \in Mutators /\ last'.list # o)
              => /\ mem'.head[o] = mem.head[o]
                 /\ mem'.tail[o] = mem.tail[o]
                 /\ mem'.len[o] = mem.len[o]
                 /\ Forward(mem', o) = Forward(mem, o)
                 /\ \A n \in NodesOf(mem, o) :
                      /\ mem'.prev[n] = mem.prev[n]
                      /\ mem'.next[n] = mem.next[n]
                      /\ mem'.value[n] = mem.value[n]]_vars

\* a list and its clone, both non-empty, the clone just changed by an insert
C10_Witness ==
    /\ mem.lalloc = Lists
    /\ last.op = "insert" /\ last.fail = "none"
    /\ mem.len[last.list] >= 2
    /\ \E o \in Lists : o # last.list /\ mem.len[o] >= 1

\* C11: in the loop that removes each node right after list_next yielded it,
\* in either direction, the cursor never refers to a released node, the
\* nodes yielded so far are the first nodes the list had at the start, in
\* the iterator's order and each once, and when list_next returns NULL every
\* node of the start has been yielded and the list is empty.
C11_RemoveYieldedIsSafe ==
    LET order == InOrder(last.start, last.list, last.k)
    IN  /\ last.ub = "none"
        /\ \A it \in mem.ialloc : mem.inext[it] \in {NULL} \cup mem.nalloc
        /\ Len(last.seen) <= Len(order)
        /\ last.seen = SubSeq(order, 1, Len(last.seen))
        /\ (last.op = "next" /\ last.ret # NULL)
             => last.ret = order[Len(last.seen)]
        /\ (last.op = "next" /\ last.ret = NULL)
             => /\ last.seen = order
                /\ mem.len[last.list] = 0
                /\ mem.nalloc = {}

\* a backward loop over a list of three nodes that has ended
C11_Witness ==
    /\ last.op = "next" /\ last.ret = NULL /\ last.ub = "none"
    /\ last.k = _START_TAIL
    /\ Len(last.seen) = 3
    /\ last.seen = Backward(last.start, last.list)
    /\ mem.len[last.list] = 0

\* C12: index(list, p) is the node at position p of the forward traversal
\* for p in [0, count), the node at position -p-1 of the backward traversal
\* for p in [-count, -1], and Empty for every other p (p = count,
\* p = -count-1, the extreme values of a long, any p on an empty list).
C12_IndexMatchesTraversal ==
    last.op = "index"
      => LET l == last.list
             p == last.k
             n == mem.len[l]
         IN  IF 0 <= p /\ p < n
             THEN last.ret = Forward(mem, l)[p + 1]
             ELSE IF (-n) <= p /\ p <= -1
                  THEN last.ret = Backward(mem, l)[(-p - 1) + 1]
                  ELSE last.ret = NULL

\* index(list, -count) on a list of three nodes is its front
C12_Witness ==
    /\ last.op = "index"
    /\ mem.len[last.list] = 3
    /\ last.k = -3
    /\ last.ret = mem.head[last.list]
    /\ last.ret # NULL

\* C13: after list_rotate has been applied as many times as the list has
\* nodes (0 and 1 included), the memory is what it was before the first
\* rotation: the same nodes in the same order, the same front, back and count.
C13_RotateCountTimesIsIdentity ==
    (last.op \in {"init", "rotate"} /\ last.k = mem.len[last.list])
      => /\ mem = last.start
         /\ Forward(mem, last.list) = Forward(last.start, last.list)
         /\ mem.head[last.list] = last.start.head[last.list]
         /\ mem.tail[last.list] = last.start.tail[last.list]
         /\ mem.len[last.list] = last.start.len[last.list]

\* the third rotation of a list of three nodes
C13_Witness ==
    /\ last.op = "rotate"
    /\ last.k = 3
    /\ mem.len[last.list] = 3
    /\ Forward(mem, last.list) = Forward(last.start, last.list)

\* C15: after a successful add_front(list, value) followed by
\* remove(list, index(list, 0)), on any list, empty or not, and for any
\* value, the list is what it was before: the same count, front and back, the
\* same nodes holding the same values in the same order.
C15_AddFrontThenRemoveRestores ==
    (last.op = "remove" /\ last.start # <<>>)
      => LET l == last.list
         IN  /\ Same(last.start, mem)
             /\ mem.len[l] = last.start.len[l]
             /\ mem.head[l] = last.start.head[l]
             /\ mem.tail[l] = last.start.tail[l]
             /\ ValuesOf(mem, l) = ValuesOf(last.start, l)
             /\ Len(Forward(mem, l)) = mem.len[l]
             /\ Forward(mem, l) = Reverse(Backward(mem, l))

\* the round trip on an empty list whose release_value is installed
C15_Witness ==
    /\ last.op = "remove"
    /\ last.start # <<>>
    /\ last.start.len[last.list] = 0
    /\ mem.len[last.list] = 0
    /\ mem.head[last.list] = NULL /\ mem.tail[last.list] = NULL
    /\ Len(mem.rlog) = 1

\* node n of list l matches key: by match_value when it is installed, by
\* identity of the value pointer when it is not
Matches(m, l, n, key) ==
    IF m.match[l] THEN match_cb(m.value[n], key) ELSE m.value[n] = key

\* C14: search(list, key), its iterator allocated, returns the first node in
\* front-to-back order that matches key (by match_value when installed, by
\* identity of the value reference otherwise), the one nearest the front
\* when several match, and Empty when none matches or the list is empty.
C14_SearchReturnsFirstMatch ==
    (last.op = "search" /\ last.fail = "none")
      => LET l == last.list
             f == Forward(mem, l)
             hits == {i \in 1..Len(f) : Matches(mem, l, f[i], last.k)}
         IN  /\ last.ub = "none"
             /\ IF hits = {} THEN last.ret = NULL ELSE last.ret = f[Min(hits)]

\* a search by match_value for an object no node holds, on a list of three
\* nodes of which the second and the third match: the second is returned
C14_Witness ==
    /\ last.op = "search" /\ last.fail = "none"
    /\ mem.match[last.list]
    /\ last.k \notin OrigVals
    /\ mem.len[last.list] = 3
    /\ LET f == Forward(mem, last.list)
       IN  /\ Len(f) = 3
           /\ ~Matches(mem, last.list, f[1], last.k)
           /\ Matches(mem, last.list, f[2], last.k)
           /\ Matches(mem, last.list, f[3], last.k)
           /\ last.ret = f[2]

PosOf(f, n) == CHOOSE i \in 1..Len(f) : f[i] = n

\* C17: a successful insert(list, anchor, value, after), anchor a node of
\* the list, yields the prior node sequence with one new node holding value
\* right after anchor (after true) or right before it (after false); the
\* other nodes keep their order and values, count grows by one, back becomes
\* the new node iff anchor was back and after is true, and front becomes the
\* new node iff anchor was front and after is false.
C17_InsertSplicesAtAnchor ==
    (last.op = "insert" /\ last.ret # NULL)
      => LET l == last.list
             anchor == last.args[1]
             value == last.args[2]
             after == last.args[3]
             f0 == Forward(last.start, l)
             f1 == Forward(mem, l)
             i == PosOf(f0, anchor)
             cut == IF after THEN i ELSE i - 1
             added == mem.nalloc \ last.start.nalloc
         IN  /\ last.ret = l
             /\ Cardinality(added) = 1
             /\ \A new \in added :
                  /\ f1 = SubSeq(f0, 1, cut) \o <<new>> \o SubSeq(f0, cut + 1, Len(f0))
                  /\ mem.value[new] = value
                  /\ mem.tail[l] = new <=> (anchor = last.start.tail[l] /\ after)
                  /\ mem.head[l] = new <=> (anchor = last.start.head[l] /\ ~after)
                  /\ mem.tail[l] # new => mem.tail[l] = last.start.tail[l]
                  /\ mem.head[l] # new => mem.head[l] = last.start.head[l]
             /\ Backward(mem, l) = Reverse(f1)
             /\ \A n \in Range(f0) : mem.value[n] = last.start.value[n]
             /\ mem.len[l] = last.start.len[l] + 1
             /\ mem.rlog = <<>>

\* an insert after the back of a list of three nodes
C17_Witness ==
    /\ last.op = "insert" /\ last.ret # NULL
    /\ last.args[3]
    /\ last.args[1] = last.start.tail[last.list]
    /\ last.start.len[last.list] = 3
    /\ mem.len[last.list] = 4
    /\ mem.tail[last.list] \notin last.start.nalloc

\* C18: rotate on a list of at most one node changes nothing; on a list
\* [a1, ..., an], n >= 2, it produces [an, a1, ..., a(n-1)] with the same
\* node objects and values, the count unchanged, nothing allocated, nothing
\* released, no callback invoked; index(-1) is then the node a(n-1).
C18_RotateMovesBackToFront ==
    [][last'.op = "rotate"
         => LET l == last'.list
                f0 == Forward(mem, l)
                f1 == Forward(mem', l)
                n == mem.len[l]
            IN  /\ mem'.rlog = <<>> /\ mem'.dlog = <<>>
                /\ mem'.nalloc = mem.nalloc
                /\ mem'.lalloc = mem.lalloc
                /\ mem'.ialloc = mem.ialloc
                /\ mem'.len[l] = n
                /\ mem'.value = mem.value
                /\ IF n <= 1
                   THEN Same(mem, mem')
                   ELSE /\ f1 = <<f0[n]>> \o SubSeq(f0, 1, n - 1)
                        /\ Backward(mem', l) = Reverse(f1)
                        /\ mem'.head[l] = f0[n]
                        /\ mem'.tail[l] = f0[n - 1]
                        /\ list_index(mem', l, -1) = f0[n - 1]]_vars

\* a rotated list of three nodes whose values are now 2, 1, 1: it was
\* 1, 1, 2, and index(-1) is the node that was in the middle
C18_Witness ==
    /\ last.op = "rotate"
    /\ last.list \in mem.lalloc
    /\ ValuesOf(mem, last.list) = <<2, 1, 1>>
    /\ list_index(mem, last.list, -1) = mem.tail[last.list]
    /\ mem.rlog = <<>>

\* C19: while an iterator's cursor is empty, every call but a rewind leaves
\* it empty and every list_next returns Empty, whatever is done to the list;
\* a rewind leaves the iterator as list_iterator would make it for that list
\* and direction; and a traversal after a rewind, the list not being changed
\* meanwhile, yields the nodes of the list in that direction's order, each
\* once, count of them in all, and then Empty.
C19_ExhaustedUntilRewind ==
    [][\A it \in mem.ialloc :
         /\ (mem.inext[it] = NULL /\ last'.op \notin {"rewind", "rewind_tail"})
              => /\ mem'.inext[it] = NULL
                 /\ last'.op = "next" => (last'.ret = NULL /\ last'.ub = "none")
         /\ last'.op \in {"rewind", "rewind_tail"}
              => LET dir == IF last'.op = "rewind" THEN _START_HEAD ELSE _START_TAIL
                     new == list_iterator(mem, last'.list, dir, it).m
                 IN  /\ mem'.inext[it] = new.inext[it]
                     /\ mem'.idir[it] = new.idir[it]
         /\ (last'.op = "next" /\ last'.start # <<>>)
              => LET order == InOrder(last'.start, last'.list, mem.idir[it])
                 IN  /\ last'.ub = "none"
                     /\ Len(order) = mem'.len[last'.list]
                     /\ Len(last'.seen) <= Len(order)
                     /\ last'.seen = SubSeq(order, 1, Len(last'.seen))
                     /\ last'.ret = NULL <=> last.seen = order
                     /\ last'.ret # NULL => last'.ret = order[Len(last'.seen)]]_vars

\* the list was changed (its nodes are 2, 3, 1 from the front), the
\* iterator was then rewound to the tail, and the traversal has yielded the
\* three nodes backwards and then Empty
C19_Witness ==
    /\ last.op = "next" /\ last.ret = NULL
    /\ last.start # <<>>
    /\ Forward(mem, last.list) = <<2, 3, 1>>
    /\ \E it \in mem.ialloc :
         /\ last.start.inext[it] = last.start.tail[last.list]
         /\ mem.idir[it] = _START_TAIL
         /\ mem.inext[it] = NULL
    /\ last.seen = <<1, 3, 2>>

\* the calls of the read path other than list_clone
ReadOps == {"iterator", "rewind", "rewind_tail", "next", "search", "index"}

\* C20: list_iterator, list_rewind, list_rewind_tail, list_next,
\* list_search, list_index and a successful list_clone leave every list as
\* it was (front, back, count, callbacks, and the prev, next and value of
\* every allocated node); list_search and list_clone leave no iterator of their
\* own allocated on any return path, and after list_search the allocated
\* nodes, lists and iterators are those allocated before it.
C20_ReadPathChangesNothing ==
    [][/\ (last'.op \in ReadOps \/ (last'.op = "clone" /\ last'.ret # NULL))
            => /\ mem.lalloc \subseteq mem'.lalloc
               /\ mem.nalloc \subseteq mem'.nalloc
               /\ \A l \in mem.lalloc :
                    /\ mem'.head[l] = mem.head[l]
                    /\ mem'.tail[l] = mem.tail[l]
                    /\ mem'.len[l] = mem.len[l]
                    /\ mem'.dup[l] = mem.dup[l]
                    /\ mem'.free[l] = mem.free[l]
                    /\ mem'.match[l] = mem.match[l]
               /\ \A n \in mem.nalloc :
                    /\ mem'.prev[n] = mem.prev[n]
                    /\ mem'.next[n] = mem.next[n]
                    /\ mem'.value[n] = mem.value[n]
       /\ last'.op \in {"search", "clone"} => mem'.ialloc = mem.ialloc
       /\ last'.op = "search"
            => /\ mem'.nalloc = mem.nalloc
               /\ mem'.lalloc = mem.lalloc]_vars

\* a successful clone of a list of three nodes, made while the caller holds
\* an iterator whose cursor is the second node
C20_Witness ==
    /\ last.op = "clone" /\ last.ret # NULL /\ last.ub = "none"
    /\ mem.len[last.list] = 3
    /\ mem.lalloc = Lists
    /\ Cardinality(mem.nalloc) = 6
    /\ \E it \in mem.ialloc :
         /\ mem.ialloc = {it}
         /\ mem.inext[it] = mem.next[mem.head[last.list]]

====
